---- MODULE Spec2Model ----
(***************************************************************************)
(* Design-token -> Tailwind theme pipeline of dev_website                  *)
(* (src/eslint.config.js, lines 53-316: the tailwind configuration).       *)
(*                                                                         *)
(* Representation of strings.  A string is modelled by the sequence of the *)
(* hyphen-free words it splits into at '-':                                *)
(*     "default"       is  <<"default">>                                   *)
(*     "a-b"           is  <<"a", "b">>                                    *)
(*     "font-size"     is  <<"font", "size">>                              *)
(* Two strings are equal exactly when their word sequences are equal, and  *)
(* joining strings with '-' is the concatenation of their word sequences,  *)
(* so key collisions such as "a" + "-" + "b-c" = "a-b" + "-" + "c" are     *)
(* real in the model.                                                      *)
(***************************************************************************)
EXTENDS Naturals, Sequences, FiniteSets, TLC

VARIABLES
    manifestFile,     \* manifest.json on disk: [status, themes]
    themeFiles,       \* theme files on disk: file name -> [status, doc]
    pc,               \* position in the evaluation of the configuration module
    error,            \* the exception that aborted the evaluation, or "none"
    manifest,         \* const manifest (line 90)
    loadedTokens,     \* const loadedTokens (line 94), built entry by entry
    baseTheme,        \* const baseTheme (line 99)
    semanticColors,   \* const semanticColors (line 126)
    spacing,          \* const spacing (line 128)
    radius,           \* const radius (line 132)
    shadow,           \* const shadow (line 136)
    motionDuration,   \* const motionDuration (line 140)
    motionEasing,     \* const motionEasing (line 151)
    config,           \* const config (line 212), the exported value
    secondRun,        \* FALSE in the first evaluation, TRUE in the second
    firstOutcome,     \* what the first evaluation ended with
    store,            \* the state of useUserStore: [user, isLoading]
    calls             \* the calls made on the store so far, oldest first

vars == <<manifestFile, themeFiles, pc, error, manifest, loadedTokens, baseTheme,
          semanticColors, spacing, radius, shadow, motionDuration, motionEasing,
          config, secondRun, firstOutcome, store, calls>>

\* Largest number of themes a manifest lists.
MaxThemes == 3

\* Largest number of calls made on the user store.
MaxCalls == 3

\* The value `undefined`, and a const that is not evaluated yet.
Undefined == [kind |-> "undefined"]
NotEvaluated == [kind |-> "not evaluated"]

----------------------------------------------------------------------------
(* Strings and variable references                                         *)

\* Array.prototype.join('-') on strings given as word sequences.
RECURSIVE Join(_)
Join(segments) ==
    IF segments = <<>> THEN <<>>
    ELSE Head(segments) \o Join(Tail(segments))

\* createVar with a bug: the reference carries a suffix taken from per-process
\* state (here: whether this is the second evaluation).
createVar_Stamped(segments) ==
    [open |-> "var(--",
     name |-> Join(segments) \o (IF secondRun THEN <<"2">> ELSE <<>>),
     close |-> ")"]

\* createVar = (...segments) => `var(--${segments.join('-')})`
createVar(segments) ==
    [open |-> "var(--", name |-> Join(segments), close |-> ")"]

\* obj[key] on a plain object: undefined when the key is absent.
Lookup(obj, key) == IF key \in DOMAIN obj THEN obj[key] ELSE Undefined

----------------------------------------------------------------------------
(* The token pipeline's pure steps                                         *)

\* semantic.color, the one JSON object whose entries the code walks in order,
\* is the sequence of its entries <<category, values>>, values the sequence of
\* the entries <<token, raw value>>; keys are distinct, as JSON.parse leaves
\* them.  The other token groups are functions from token name to raw value.

\* find with a bug: the last flagged element (findLast) instead of the first.
Find_Last(tokens) ==
    IF \E i \in DOMAIN tokens : tokens[i].metadata.default
    THEN tokens[CHOOSE i \in DOMAIN tokens :
                    /\ tokens[i].metadata.default
                    /\ \A j \in (i + 1)..Len(tokens) : ~tokens[j].metadata.default]
    ELSE Undefined

\* loadedTokens.find((theme) => theme.metadata.default): the first element, in
\* list order, whose metadata.default is truthy; undefined when there is none.
Find(tokens) ==
    IF \E i \in DOMAIN tokens : tokens[i].metadata.default
    THEN tokens[CHOOSE i \in DOMAIN tokens :
                    /\ tokens[i].metadata.default
                    /\ \A j \in 1..(i - 1) : ~tokens[j].metadata.default]
    ELSE Undefined

\* const baseTheme = loadedTokens.find(...) ?? loadedTokens[0];
\* loadedTokens[0] of an empty array is undefined.
SelectBaseTheme(tokens) ==
    IF Find(tokens) # Undefined THEN Find(tokens)
    ELSE IF tokens # <<>> THEN tokens[1]
    ELSE Undefined

\* The inner loop with a bug: the reference leaves the category out.
RECURSIVE FlattenCategory_NoCategory(_, _, _)
FlattenCategory_NoCategory(result, category, values) ==
    IF values = <<>> THEN result
    ELSE LET token == Head(values)[1]
             key   == Join(<<category, token>>)
             ref   == [open |-> "var(--", name |-> Join(<<<<"color">>, token>>), close |-> ")"]
         IN  FlattenCategory_NoCategory(
                 [k \in (DOMAIN result) \cup {key} |->
                     IF k = key THEN ref ELSE result[k]],
                 category, Tail(values))

\* The inner loop of flattenSemanticColors: for (const [token] of
\* Object.entries(values)) result[key] = createVar('color', category, token).
\* An assignment to a key already present overwrites it.
RECURSIVE FlattenCategory(_, _, _)
FlattenCategory(result, category, values) ==
    IF values = <<>> THEN result
    ELSE LET token == Head(values)[1]
             key   == Join(<<category, token>>)
             ref   == createVar(<<<<"color">>, category, token>>)
         IN  FlattenCategory(
                 [k \in (DOMAIN result) \cup {key} |->
                     IF k = key THEN ref ELSE result[k]],
                 category, Tail(values))

\* The outer loop: for (const [category, values] of Object.entries(semantic)).
RECURSIVE FlattenFrom(_, _)
FlattenFrom(result, semantic) ==
    IF semantic = <<>> THEN result
    ELSE FlattenFrom(
             FlattenCategory(result, Head(semantic)[1], Head(semantic)[2]),
             Tail(semantic))

\* const result = {}; ... return result;
flattenSemanticColors(semantic) == FlattenFrom(<<>>, semantic)

\* Object.fromEntries(Object.keys(group).map((token) => [token, createVar(...prefix, token)]))
VarMap(prefix, group) ==
    [token \in DOMAIN group |-> createVar(prefix \o <<token>>)]

\* spacing with a bug: the prefix of the group's own name, not 'space'.
SpacingVars_WrongPrefix(theme) == VarMap(<<<<"spacing">>>>, theme.primitives.spacing)

SpacingVars(theme) == VarMap(<<<<"space">>>>, theme.primitives.spacing)
RadiusVars(theme)  == VarMap(<<<<"radius">>>>, theme.primitives.radius)
ShadowVars(theme)  == VarMap(<<<<"shadow">>>>, theme.primitives.shadow)

\* The fallback with a bug: DEFAULT is assigned without the test.
WithDefault_Always(map, kind) ==
    [token \in (DOMAIN map) \cup {<<"DEFAULT">>} |->
        IF token = <<"DEFAULT">>
        THEN [open |-> "var(--", name |-> <<"motion">> \o kind \o <<"standard">>, close |-> ")"]
        ELSE map[token]]

\* if (!('DEFAULT' in map)) map.DEFAULT = createVar('motion', kind, 'standard');
WithDefault(map, kind) ==
    IF <<"DEFAULT">> \in DOMAIN map THEN map
    ELSE [token \in (DOMAIN map) \cup {<<"DEFAULT">>} |->
             IF token = <<"DEFAULT">>
             THEN createVar(<<<<"motion">>, kind, <<"standard">>>>)
             ELSE map[token]]

MotionDurationVars(theme) ==
    WithDefault(VarMap(<<<<"motion">>, <<"duration">>>>, theme.primitives.motion.duration),
                <<"duration">>)

MotionEasingVars(theme) ==
    WithDefault(VarMap(<<<<"motion">>, <<"easing">>>>, theme.primitives.motion.easing),
                <<"easing">>)

\* The nested colour groups of config.theme.extend.colors: group -> variant ->
\* the flattened key the Emitter looks up.
ColorGroups ==
    [background |-> [DEFAULT |-> <<"background", "default">>,
                     muted   |-> <<"background", "muted">>],
     surface    |-> [DEFAULT  |-> <<"surface", "default">>,
                     contrast |-> <<"surface", "contrast">>,
                     subtle   |-> <<"surface", "subtle">>],
     text       |-> [DEFAULT |-> <<"text", "default">>,
                     muted   |-> <<"text", "muted">>,
                     inverse |-> <<"text", "inverse">>,
                     accent  |-> <<"text", "accent">>],
     accent     |-> [DEFAULT  |-> <<"accent", "default">>,
                     hover    |-> <<"accent", "hover">>,
                     active   |-> <<"accent", "active">>,
                     contrast |-> <<"accent", "contrastText">>],
     success    |-> [DEFAULT  |-> <<"success", "default">>,
                     contrast |-> <<"success", "contrastText">>],
     warning    |-> [DEFAULT  |-> <<"warning", "default">>,
                     contrast |-> <<"warning", "contrastText">>],
     danger     |-> [DEFAULT  |-> <<"danger", "default">>,
                     contrast |-> <<"danger", "contrastText">>],
     border     |-> [subtle |-> <<"border", "subtle">>,
                     strong |-> <<"border", "strong">>,
                     accent |-> <<"border", "accent">>],
     focus      |-> [ring  |-> <<"focus", "ring">>,
                     inner |-> <<"focus", "inner">>],
     overlay    |-> [scrim |-> <<"overlay", "scrim">>]]

\* colors: { ...semanticColors, background: {...}, surface: {...}, ... }
\* A group name written after the spread replaces a spread key of that name.
EmitColors(flat) ==
    [k \in (DOMAIN flat) \cup { <<g>> : g \in DOMAIN ColorGroups } |->
        IF \E g \in DOMAIN ColorGroups : k = <<g>>
        THEN LET g == CHOOSE h \in DOMAIN ColorGroups : k = <<h>>
             IN  [v \in DOMAIN ColorGroups[g] |-> Lookup(flat, ColorGroups[g][v])]
        ELSE flat[k]]

\* const config: Config = { ..., theme: { ..., extend: { colors, spacing,
\* borderRadius, boxShadow, transitionDuration, transitionTimingFunction } } }.
\* The members that are literals of the file (content, screens, container, font
\* scales, background images, plugins) do not depend on the tokens and are left out.
EmitConfig(flat, sp, rad, sh, dur, eas) ==
    [theme |-> [extend |->
        [colors                   |-> EmitColors(flat),
         spacing                  |-> sp,
         borderRadius             |-> rad,
         boxShadow                |-> sh,
         transitionDuration       |-> dur,
         transitionTimingFunction |-> eas]]]

----------------------------------------------------------------------------
(* The user store (src/store/userStore.ts)                                 *)

\* The value null.
Null == [kind |-> "null"]

\* Values of the User interface: { id, name, email }.
Users ==
    [id : {"u1", "u2"}, name : {"Ann", "Bob"}, email : {"ann@example.org", "bob@example.org"}]

\* The state the creator function returns: user: null, isLoading: false.
InitialStore == [user |-> Null, isLoading |-> FALSE]

\* zustand's set(partial): the new state is the old one with the fields of
\* partial replacing the fields of the same name (a shallow merge).
set(state, partial) ==
    [k \in (DOMAIN state) \cup (DOMAIN partial) |->
        IF k \in DOMAIN partial THEN partial[k] ELSE state[k]]

\* setUser with a bug: the new user's fields are laid under the held user's.
setUser_Merging(state, user) ==
    IF state.user = Null THEN set(state, [user |-> user])
    ELSE set(state, [user |-> [user EXCEPT !.id = state.user.id]])

\* setUser: (user) => set({ user })
setUser(state, user) == set(state, [user |-> user])

\* clearUser: () => set({ user: null })
clearUser(state) == set(state, [user |-> Null])

\* setLoading: (isLoading) => set({ isLoading })
setLoading(state, isLoading) == set(state, [isLoading |-> isLoading])

----------------------------------------------------------------------------
(* The files the pipeline reads                                            *)

\* File names of the themes, in the order manifests list them.
ThemeNames == <<"midnight", "horizon", "aurora", "dusk", "ember">>

FileStatus == {"ok", "missing", "malformed"}

\* The raw values of a theme's tokens; the pipeline never reads them.
RawOf(id) == id

TokenGroup(names, raw) == [t \in names |-> raw]

WithRaw(tokens, raw) == [i \in DOMAIN tokens |-> <<tokens[i], raw>>]

\* A semantic.color that defines every colour the configuration refers to.
FullColorNames ==
    << <<"background", <<"default", "muted">> >>,
       <<"surface",    <<"default", "contrast", "subtle">> >>,
       <<"text",       <<"default", "muted", "inverse", "accent">> >>,
       <<"accent",     <<"default", "hover", "active", "contrastText">> >>,
       <<"success",    <<"default", "contrastText">> >>,
       <<"warning",    <<"default", "contrastText">> >>,
       <<"danger",     <<"default", "contrastText">> >>,
       <<"border",     <<"subtle", "strong", "accent">> >>,
       <<"focus",      <<"ring", "inner">> >>,
       <<"overlay",    <<"scrim">> >> >>

FullColor(raw) ==
    [i \in DOMAIN FullColorNames |->
        << <<FullColorNames[i][1]>>,
           [j \in DOMAIN FullColorNames[i][2] |-> << <<FullColorNames[i][2][j]>>, raw >>] >>]

\* The same without its last category (overlay).
NoOverlayColor(raw) == SubSeq(FullColor(raw), 1, Len(FullColor(raw)) - 1)

\* Small colour maps over the categories "a" and "a-b" and the tokens "c" and
\* "b-c": each category is absent or lists any of the tokens.
TokenLists == { <<>>, << <<"c">> >>, << <<"b", "c">> >>, << <<"c">>, <<"b", "c">> >> }
OptTokenLists == { <<>> } \cup { <<l>> : l \in TokenLists }
CategoryEntry(category, opt, raw) ==
    IF opt = <<>> THEN <<>> ELSE << <<category, WithRaw(opt[1], raw)>> >>
SmallColors(raw) ==
    { CategoryEntry(<<"a">>, oa, raw) \o CategoryEntry(<<"a", "b">>, ob, raw) :
        oa \in OptTokenLists, ob \in OptTokenLists }

ColorChoices(raw) == SmallColors(raw) \cup { FullColor(raw), NoOverlayColor(raw) }

StandardPrimitives(raw) ==
    [spacing |-> TokenGroup({<<"sm">>, <<"md">>}, raw),
     motion  |-> [duration |-> TokenGroup({<<"fast">>, <<"standard">>}, raw),
                  easing   |-> TokenGroup({<<"standard">>}, raw)],
     radius  |-> TokenGroup({<<"full">>}, raw),
     shadow  |-> TokenGroup({<<"soft">>}, raw)]

PrimitiveChoices(raw) ==
    { [spacing |-> TokenGroup(sp, raw),
       motion  |-> [duration |-> TokenGroup(du, raw), easing |-> TokenGroup(ea, raw)],
       radius  |-> TokenGroup(ra, raw),
       shadow  |-> TokenGroup(sh, raw)] :
        sp \in SUBSET {<<"sm">>, <<"md">>},
        ra \in SUBSET {<<"full">>},
        sh \in SUBSET {<<"soft">>},
        du \in SUBSET {<<"DEFAULT">>, <<"standard">>, <<"fast">>},
        ea \in SUBSET {<<"DEFAULT">>, <<"standard">>} }

\* A theme document of the ThemeTokens shape (typography, which the
\* configuration never reads, left out).  metadata.default is optional: an
\* absent flag is falsy and is FALSE here, as is an absent default of a
\* manifest entry.
ThemeDoc(id, default, primitives, color) ==
    [metadata   |-> [id |-> id, default |-> default],
     primitives |-> primitives,
     semantic   |-> [color |-> color]]

ManifestEntry(id, default) == [id |-> id, file |-> id, default |-> default]

\* Manifests of up to MaxThemes themes; every flag of the manifest and of the
\* documents, and every file's condition, is free.
InitThemes ==
    \E n \in 0..MaxThemes :
    \E flags \in [1..n -> BOOLEAN] :
    \E status \in [1..n -> FileStatus] :
    \E docFlags \in [1..n -> BOOLEAN] :
        \* a file that cannot be read or parsed has no content to vary
        /\ \A i \in 1..n : status[i] # "ok" => ~docFlags[i]
        /\ manifestFile =
             [status |-> "ok",
              themes |-> [i \in 1..n |-> ManifestEntry(ThemeNames[i], flags[i])]]
        /\ themeFiles =
             [f \in { ThemeNames[i] : i \in 1..n } |->
                LET i == CHOOSE j \in 1..n : ThemeNames[j] = f
                IN  [status |-> status[i],
                     doc    |-> ThemeDoc(f, docFlags[i],
                                         StandardPrimitives(RawOf(f)),
                                         FullColor(RawOf(f)))]]

\* A manifest that cannot be read or parsed.
InitBadManifest ==
    /\ manifestFile \in { [status |-> s, themes |-> <<>>] : s \in {"missing", "malformed"} }
    /\ themeFiles = <<>>

\* One theme whose semantic colours or whose primitives are free.
InitTokens ==
    LET f   == ThemeNames[1]
        raw == RawOf(f)
    IN  /\ manifestFile = [status |-> "ok", themes |-> <<ManifestEntry(f, TRUE)>>]
        /\ \E doc \in { ThemeDoc(f, TRUE, StandardPrimitives(raw), c) : c \in ColorChoices(raw) }
                  \cup { ThemeDoc(f, TRUE, p, FullColor(raw)) : p \in PrimitiveChoices(raw) } :
               themeFiles = [g \in {f} |-> [status |-> "ok", doc |-> doc]]

\* Before the module is evaluated no const holds a value.
Fresh ==
    /\ pc = "manifest"
    /\ error = "none"
    /\ manifest = NotEvaluated
    /\ loadedTokens = <<>>
    /\ baseTheme = NotEvaluated
    /\ semanticColors = <<>>
    /\ spacing = <<>>
    /\ radius = <<>>
    /\ shadow = <<>>
    /\ motionDuration = <<>>
    /\ motionEasing = <<>>
    /\ config = NotEvaluated

Init ==
    /\ InitThemes \/ InitBadManifest \/ InitTokens
    /\ Fresh
    /\ secondRun = FALSE
    /\ firstOutcome = NotEvaluated
    /\ store = InitialStore
    /\ calls = <<>>

----------------------------------------------------------------------------
(* Evaluation of the configuration module, statement by statement         *)

\* Reading with a bug: a file that does not parse is taken as it is (its
\* error is swallowed) instead of ending the build.
ReadError_Lenient(status) ==
    IF status = "missing" THEN "ENOENT" ELSE "none"

\* JSON.parse(fs.readFileSync(path, 'utf8')): what it throws for a file in
\* the given condition ("none": it returns the parsed content).
ReadError(status) ==
    CASE status = "missing"   -> "ENOENT"
      [] status = "malformed" -> "SyntaxError"
      [] OTHER                -> "none"

\* An exception at the top level of the module ends its evaluation: no later
\* statement runs and nothing is exported.
Abort(e) ==
    /\ pc' = "failed"
    /\ error' = e

\* const manifest = JSON.parse(fs.readFileSync(manifestPath, 'utf8'))
ReadManifest ==
    /\ pc = "manifest"
    /\ IF ReadError(manifestFile.status) # "none"
       THEN /\ Abort(ReadError(manifestFile.status))
            /\ UNCHANGED manifest
       ELSE /\ manifest' = [themes |-> manifestFile.themes]
            /\ pc' = "load"
            /\ UNCHANGED error
    /\ UNCHANGED <<manifestFile, themeFiles, loadedTokens, baseTheme, semanticColors,
                   spacing, radius, shadow, motionDuration, motionEasing, config,
                   secondRun, firstOutcome, store, calls>>

\* The file a manifest entry names, as found on disk.
FileOf(entry) ==
    IF entry.file \in DOMAIN themeFiles THEN themeFiles[entry.file]
    ELSE [status |-> "missing"]

\* One call of the callback of manifest.themes.map: the next entry's file is
\* read and parsed, and its document is the next element of the result.
LoadTheme ==
    /\ pc = "load"
    /\ Len(loadedTokens) < Len(manifest.themes)
    /\ LET file == FileOf(manifest.themes[Len(loadedTokens) + 1])
       IN  IF ReadError(file.status) # "none"
           THEN /\ Abort(ReadError(file.status))
                /\ UNCHANGED loadedTokens
           ELSE /\ loadedTokens' = Append(loadedTokens, file.doc)
                /\ UNCHANGED <<pc, error>>
    /\ UNCHANGED <<manifestFile, themeFiles, manifest, baseTheme, semanticColors,
                   spacing, radius, shadow, motionDuration, motionEasing, config,
                   secondRun, firstOutcome, store, calls>>

\* const baseTheme = loadedTokens.find(...) ?? loadedTokens[0], once map has
\* returned the whole list.
SelectTheme ==
    /\ pc = "load"
    /\ Len(loadedTokens) = Len(manifest.themes)
    /\ baseTheme' = SelectBaseTheme(loadedTokens)
    /\ pc' = "flatten"
    /\ UNCHANGED <<manifestFile, themeFiles, error, manifest, loadedTokens,
                   semanticColors, spacing, radius, shadow, motionDuration,
                   motionEasing, config, secondRun, firstOutcome, store, calls>>

\* const semanticColors = flattenSemanticColors(baseTheme.semantic.color);
\* reading .semantic of undefined throws a TypeError.
Flatten ==
    /\ pc = "flatten"
    /\ IF baseTheme = Undefined
       THEN /\ Abort("TypeError")
            /\ UNCHANGED semanticColors
       ELSE /\ semanticColors' = flattenSemanticColors(baseTheme.semantic.color)
            /\ pc' = "primitives"
            /\ UNCHANGED error
    /\ UNCHANGED <<manifestFile, themeFiles, manifest, loadedTokens, baseTheme,
                   spacing, radius, shadow, motionDuration, motionEasing, config,
                   secondRun, firstOutcome, store, calls>>

\* const spacing = ...; const radius = ...; const shadow = ...;
Primitives ==
    /\ pc = "primitives"
    /\ spacing' = SpacingVars(baseTheme)
    /\ radius' = RadiusVars(baseTheme)
    /\ shadow' = ShadowVars(baseTheme)
    /\ pc' = "motion"
    /\ UNCHANGED <<manifestFile, themeFiles, error, manifest, loadedTokens, baseTheme,
                   semanticColors, motionDuration, motionEasing, config,
                   secondRun, firstOutcome, store, calls>>

\* const motionDuration = ...; if (!('DEFAULT' in motionDuration)) ...;
\* const motionEasing = ...;   if (!('DEFAULT' in motionEasing)) ...;
Motion ==
    /\ pc = "motion"
    /\ motionDuration' = MotionDurationVars(baseTheme)
    /\ motionEasing' = MotionEasingVars(baseTheme)
    /\ pc' = "emit"
    /\ UNCHANGED <<manifestFile, themeFiles, error, manifest, loadedTokens, baseTheme,
                   semanticColors, spacing, radius, shadow, config,
                   secondRun, firstOutcome, store, calls>>

\* const config: Config = {...}; export default config;
Emit ==
    /\ pc = "emit"
    /\ config' = EmitConfig(semanticColors, spacing, radius, shadow,
                            motionDuration, motionEasing)
    /\ pc' = "done"
    /\ UNCHANGED <<manifestFile, themeFiles, error, manifest, loadedTokens, baseTheme,
                   semanticColors, spacing, radius, shadow, motionDuration,
                   motionEasing, secondRun, firstOutcome, store, calls>>

\* What an evaluation of the module leaves to its importer.
Outcome == [pc |-> pc, error |-> error, config |-> config]

\* The build tool evaluates the module again, in a new process, over the same
\* files: every const starts unevaluated.
Rerun ==
    /\ pc \in {"done", "failed"}
    /\ ~secondRun
    /\ firstOutcome' = Outcome
    /\ secondRun' = TRUE
    /\ pc' = "manifest"
    /\ error' = "none"
    /\ manifest' = NotEvaluated
    /\ loadedTokens' = <<>>
    /\ baseTheme' = NotEvaluated
    /\ semanticColors' = <<>>
    /\ spacing' = <<>>
    /\ radius' = <<>>
    /\ shadow' = <<>>
    /\ motionDuration' = <<>>
    /\ motionEasing' = <<>>
    /\ config' = NotEvaluated
    /\ UNCHANGED <<manifestFile, themeFiles, store, calls>>

Next ==
    \/ ReadManifest
    \/ LoadTheme
    \/ SelectTheme
    \/ Flatten
    \/ Primitives
    \/ Motion
    \/ Emit
    \/ Rerun

Spec == Init /\ [][Next]_vars

----------------------------------------------------------------------------
(* The user store at run time: any sequence of calls of its three setters  *)

\* The configuration module is not evaluated while the application runs.
pipelineVars == <<manifestFile, themeFiles, pc, error, manifest, loadedTokens,
                  baseTheme, semanticColors, spacing, radius, shadow,
                  motionDuration, motionEasing, config, secondRun, firstOutcome>>

\* useUserStore = create(...): the store right after the module is loaded.
StoreInit ==
    /\ manifestFile = [status |-> "ok", themes |-> <<>>]
    /\ themeFiles = <<>>
    /\ Fresh
    /\ secondRun = FALSE
    /\ firstOutcome = NotEvaluated
    /\ store = InitialStore
    /\ calls = <<>>

\* A component calls useUserStore.getState().setUser(u).
SetUser ==
    /\ Len(calls) < MaxCalls
    /\ \E u \in Users :
          /\ store' = setUser(store, u)
          /\ calls' = Append(calls, [op |-> "setUser", arg |-> u])
    /\ UNCHANGED pipelineVars

\* A component calls clearUser().
ClearUser ==
    /\ Len(calls) < MaxCalls
    /\ store' = clearUser(store)
    /\ calls' = Append(calls, [op |-> "clearUser"])
    /\ UNCHANGED pipelineVars

\* A component calls setLoading(b).
SetLoading ==
    /\ Len(calls) < MaxCalls
    /\ \E b \in BOOLEAN :
          /\ store' = setLoading(store, b)
          /\ calls' = Append(calls, [op |-> "setLoading", flag |-> b])
    /\ UNCHANGED pipelineVars

StoreNext ==
    \/ SetUser
    \/ ClearUser
    \/ SetLoading

StoreSpec == StoreInit /\ [][StoreNext]_vars

----------------------------------------------------------------------------
(* Properties                                                              *)

\* The statement of line 99 has run.
Selected == baseTheme # NotEvaluated

\* The statement of line 126 has returned.
Flattened == pc \in {"primitives", "motion", "emit", "done"}

\* The manifest entries marked default.
DefaultEntries == { i \in DOMAIN manifestFile.themes : manifestFile.themes[i].default }

\* The document in the file of the i-th manifest entry.
DocOfEntry(i) == themeFiles[manifestFile.themes[i].file].doc

\* The (category, token) pairs of a semantic.color.
Pairs(semantic) ==
    UNION { { <<semantic[i][1], semantic[i][2][j][1]>> : j \in DOMAIN semantic[i][2] } :
            i \in DOMAIN semantic }

RECURSIVE PairCount(_)
PairCount(semantic) ==
    IF semantic = <<>> THEN 0
    ELSE Len(Head(semantic)[2]) + PairCount(Tail(semantic))

\* C1: when exactly one manifest entry is marked default, the selected theme is
\* the document loaded from that entry's file, whatever the documents contain.
C1_ManifestDefaultSelected ==
    (Selected /\ Cardinality(DefaultEntries) = 1)
        => baseTheme = DocOfEntry(CHOOSE i \in DefaultEntries : TRUE)

\* C2: loadedTokens keeps the manifest's order and length, and when no manifest
\* entry is marked default the selected theme is the first entry's document.
C2_NoManifestDefaultSelectsFirst ==
    (Selected /\ manifestFile.themes # <<>> /\ DefaultEntries = {})
        => /\ loadedTokens = [i \in DOMAIN manifestFile.themes |-> DocOfEntry(i)]
           /\ baseTheme = DocOfEntry(1)

\* C3: the flattened map has as many entries as the selected theme's
\* semantic.color has (category, token) pairs: no two pairs share a key.
C3_FlattenedSizeIsPairCount ==
    Flattened =>
        Cardinality(DOMAIN semanticColors) = PairCount(baseTheme.semantic.color)

\* C4: for every (category, token) pair of the selected theme's semantic.color,
\* the flattened map holds at the key "<category>-<token>" exactly
\* createVar('color', category, token).
C4_RoundTrip ==
    Flattened =>
        \A p \in Pairs(baseTheme.semantic.color) :
            Lookup(semanticColors, Join(<<p[1], p[2]>>))
                = createVar(<<<<"color">>, p[1], p[2]>>)

\* C4 witness: the manifest lists midnight (default) and horizon, midnight
\* defines background.default, and the flattened map of the emitted
\* configuration holds the reference of ("color", "background", "default") at
\* the key background-default.
C4_Witness ==
    /\ pc = "done"
    /\ Len(manifestFile.themes) = 2
    /\ manifestFile.themes[1].default /\ ~manifestFile.themes[2].default
    /\ baseTheme.metadata.id = "midnight"
    /\ <<<<"background">>, <<"default">>>> \in Pairs(baseTheme.semantic.color)
    /\ semanticColors[<<"background", "default">>]
          = [open |-> "var(--", name |-> <<"color", "background", "default">>, close |-> ")"]

\* The round trip is also exercised on a theme whose pairs ("a", "b-c") and
\* ("a-b", "c") share the key a-b-c.
C4_CollidingPairsCase ==
    /\ Flattened
    /\ {<<<<"a">>, <<"b", "c">>>>, <<<<"a", "b">>, <<"c">>>>}
          \subseteq Pairs(baseTheme.semantic.color)

\* The manifest, or a theme file it lists, is missing or does not parse.
BadInput ==
    \/ manifestFile.status # "ok"
    \/ \E i \in DOMAIN manifestFile.themes : FileOf(manifestFile.themes[i]).status # "ok"

\* C5: with a missing or malformed manifest or theme file the evaluation can
\* only go on loading and then abort with the read's error: no theme is skipped,
\* the list never becomes complete, and the Selector, the Flattener and the
\* Emitter never run, so no configuration exists.
C5_BadFileAbortsBuild ==
    BadInput =>
        /\ pc \in {"manifest", "load", "failed"}
        /\ pc = "failed" => error \in {"ENOENT", "SyntaxError"}
        /\ pc # "failed" => ENABLED (ReadManifest \/ LoadTheme)
        /\ loadedTokens = [i \in 1..Len(loadedTokens) |-> DocOfEntry(i)]
        /\ \A i \in 1..Len(loadedTokens) : themeFiles[manifestFile.themes[i].file].status = "ok"
        /\ manifestFile.status = "ok" => Len(loadedTokens) < Len(manifestFile.themes)
        /\ ~ENABLED SelectTheme
        /\ baseTheme = NotEvaluated
        /\ semanticColors = <<>>
        /\ config = NotEvaluated

\* C5 witness: the build has aborted on a malformed theme file that is neither
\* first in the manifest nor the theme that would be selected.
C5_Witness ==
    /\ pc = "failed"
    /\ error = "SyntaxError"
    /\ Len(loadedTokens) >= 1
    /\ loadedTokens[1].metadata.default
    /\ manifestFile.themes[1].default
    /\ config = NotEvaluated

\* C6: with a manifest that lists no themes the Selector does not yield
\* undefined: the next statement is never reached with baseTheme undefined.
C6_EmptyListFailsInSelector ==
    (manifestFile.status = "ok" /\ manifestFile.themes = <<>>)
        => ~(baseTheme = Undefined /\ pc = "flatten")

\* C7: in an emitted configuration every key the colour groups look up is a
\* key of the flattened map, and no colour of a group is undefined.
C7_NoDanglingLookups ==
    pc = "done" =>
        \A g \in DOMAIN ColorGroups : \A v \in DOMAIN ColorGroups[g] :
            /\ ColorGroups[g][v] \in DOMAIN semanticColors
            /\ config.theme.extend.colors[<<g>>][v] # Undefined

\* What C8 says of one emitted motion map, given the theme's group.
MotionMapOk(emitted, group, kind) ==
    /\ DOMAIN emitted = (DOMAIN group) \cup {<<"DEFAULT">>}
    /\ emitted[<<"DEFAULT">>] =
          IF <<"DEFAULT">> \in DOMAIN group
          THEN createVar(<<<<"motion">>, kind, <<"DEFAULT">>>>)
          ELSE createVar(<<<<"motion">>, kind, <<"standard">>>>)
    /\ \A t \in (DOMAIN group) \ {<<"DEFAULT">>} :
          emitted[t] = createVar(<<<<"motion">>, kind, t>>)

\* C8: transitionDuration and transitionTimingFunction always have DEFAULT: the
\* theme's own DEFAULT reference when it defines the token, the reference of
\* 'standard' otherwise; every other key is the theme's token, unaffected.
C8_MotionDefault ==
    pc = "done" =>
        /\ MotionMapOk(config.theme.extend.transitionDuration,
                       baseTheme.primitives.motion.duration, <<"duration">>)
        /\ MotionMapOk(config.theme.extend.transitionTimingFunction,
                       baseTheme.primitives.motion.easing, <<"easing">>)

\* C8 witness: a configuration emitted for a theme whose durations define
\* DEFAULT and whose easings define neither DEFAULT nor standard.
C8_Witness ==
    /\ pc = "done"
    /\ {<<"DEFAULT">>, <<"standard">>} \subseteq DOMAIN baseTheme.primitives.motion.duration
    /\ DOMAIN baseTheme.primitives.motion.easing = {}
    /\ config.theme.extend.transitionDuration[<<"DEFAULT">>].name
          = <<"motion", "duration", "DEFAULT">>
    /\ config.theme.extend.transitionTimingFunction[<<"DEFAULT">>].name
          = <<"motion", "easing", "standard">>

C10_PrimitiveMaps ==
    pc = "done" =>
        LET e == config.theme.extend
            p == baseTheme.primitives
        IN  /\ DOMAIN e.spacing = DOMAIN p.spacing
            /\ \A t \in DOMAIN p.spacing : e.spacing[t] = createVar(<<<<"space">>, t>>)
            /\ DOMAIN e.borderRadius = DOMAIN p.radius
            /\ \A t \in DOMAIN p.radius : e.borderRadius[t] = createVar(<<<<"radius">>, t>>)
            /\ DOMAIN e.boxShadow = DOMAIN p.shadow
            /\ \A t \in DOMAIN p.shadow : e.boxShadow[t] = createVar(<<<<"shadow">>, t>>)

\* C10 witness: a configuration emitted for a theme with spacing, radius and
\* shadow tokens.
C10_Witness ==
    /\ pc = "done"
    /\ DOMAIN config.theme.extend.spacing = {<<"sm">>, <<"md">>}
    /\ config.theme.extend.spacing[<<"md">>].name = <<"space", "md">>
    /\ config.theme.extend.borderRadius[<<"full">>].name = <<"radius", "full">>
    /\ config.theme.extend.boxShadow[<<"soft">>].name = <<"shadow", "soft">>

\* The user the calls made so far leave in the store: the argument of the last
\* setUser when no clearUser follows it, null otherwise.
RECURSIVE HeldUser(_)
HeldUser(log) ==
    IF log = <<>> THEN Null
    ELSE LET last == log[Len(log)]
         IN  CASE last.op = "setUser"   -> last.arg
               [] last.op = "clearUser" -> Null
               [] OTHER                 -> HeldUser(SubSeq(log, 1, Len(log) - 1))

\* The loading flag the calls made so far leave: the argument of the last
\* setLoading, false when there was none.
RECURSIVE HeldLoading(_)
HeldLoading(log) ==
    IF log = <<>> THEN FALSE
    ELSE LET last == log[Len(log)]
         IN  IF last.op = "setLoading" THEN last.flag
             ELSE HeldLoading(SubSeq(log, 1, Len(log) - 1))

\* C11: after any sequence of setUser, clearUser and setLoading calls on the
\* store created with user = null and isLoading = false, the store has exactly
\* the fields user and isLoading; isLoading is what the last setLoading set
\* (setUser and clearUser leave it alone), and user is null or the whole
\* argument of the last setUser not followed by a clearUser (setLoading leaves
\* it alone, and no field of an earlier user survives).
C11_StoreFrames ==
    /\ DOMAIN store = {"user", "isLoading"}
    /\ store.user = HeldUser(calls)
    /\ store.isLoading = HeldLoading(calls)
    /\ store.user = Null \/ store.user \in Users

\* C11 witness: a second user was set over a first, different in every field,
\* while isLoading was true, and the flag is still true.
C11_Witness ==
    /\ Len(calls) = 3
    /\ calls[1].op = "setUser"
    /\ calls[2].op = "setLoading" /\ calls[2].flag
    /\ calls[3].op = "setUser"
    /\ calls[3].arg.id # calls[1].arg.id
    /\ calls[3].arg.name # calls[1].arg.name
    /\ calls[3].arg.email # calls[1].arg.email
    /\ store.user = calls[3].arg
    /\ store.isLoading

\* The manifest entries whose loaded document has metadata.default true.
FlaggedDocs ==
    { i \in DOMAIN manifestFile.themes : DocOfEntry(i).metadata.default }

\* C12: when more than one loaded document has metadata.default true, the
\* selected theme is the document of the first such entry in manifest order,
\* whatever the default fields of the manifest entries are: not a later flagged
\* document, and not the first document when it is unflagged.
C12_FirstFlaggedDocument ==
    (Selected /\ Cardinality(FlaggedDocs) > 1) =>
        \E i \in FlaggedDocs :
            /\ \A j \in FlaggedDocs : i <= j
            /\ baseTheme = DocOfEntry(i)
            /\ baseTheme.metadata.id = manifestFile.themes[i].id
            /\ \A j \in DOMAIN manifestFile.themes : j # i => baseTheme # DocOfEntry(j)

\* C12 witness: of three themes the second and third documents are flagged, the
\* manifest marks only the third entry, and the second document is selected.
C12_Witness ==
    /\ pc = "done"
    /\ Len(manifestFile.themes) = 3
    /\ FlaggedDocs = {2, 3}
    /\ DefaultEntries = {3}
    /\ baseTheme = DocOfEntry(2)

====
